---- MODULE Spec2Model ----
(***************************************************************************)
(* GuidedBDPTWorkResult (guided_bdpt_wr.h / guided_bdpt_wr.cpp): the work  *)
(* result of the guided bidirectional path tracer.  It owns a camera       *)
(* block m_block, an optional full-frame m_lightImage and, when            *)
(* GBDPT_DEBUG == 1, the per-strategy arrays m_debugBlocks and             *)
(* m_debugBlocksM.  ImageBlock and Stream are library classes; they are    *)
(* modelled by what the specification says of them (Block* operators).     *)
(***************************************************************************)
EXTENDS Integers, Sequences, FiniteSets, TLC

\* ---------------------------------------------------------------- bounds
\* largest conf.maxDepth of the strategy-index specification
MaxDepthIdx == 5
\* operations per behaviour of SpecWR
MaxSteps == 3
\* samples splatted per behaviour of SpecMerge
MaxOps == 2

VARIABLES
    GBDPT_DEBUG,      \* the build flag: TRUE iff GBDPT_DEBUG == 1
    conf,             \* per work result: the configuration it was built from
    m_block,          \* per work result: the camera block
    m_lightImage,     \* per work result: the light image, or NULL
    m_debugBlocks,    \* per work result: index -> block
    m_debugBlocksM,   \* per work result: index -> block
    stream,           \* the Stream between save and load
    fault,            \* "none", or the undefined behaviour that ended the run
    lastOp,           \* history: the last operation, when a clear, save or load
    saved,            \* history: the writer's buffers at the last save
    steps,            \* operations so far (SpecWR)
    orig,             \* history: each result as its worker handed it in
    holds,            \* history: original results folded into each one
    ops,              \* samples so far (SpecMerge)
    args,             \* last arguments of strategyIndex (SpecIdx)
    index,            \* last result of strategyIndex (SpecIdx)
    dumpLog           \* array accesses of the last dump (SpecIdx)

vars == <<GBDPT_DEBUG, conf, m_block, m_lightImage, m_debugBlocks,
          m_debugBlocksM, stream, fault, lastOp, saved,
          steps, orig, holds, ops, args, index, dumpLog>>

wrVars == <<m_block, m_lightImage, m_debugBlocks, m_debugBlocksM>>

idxVars == <<args, index, dumpLog>>

\* ------------------------------------------------------------ ImageBlock
Pixels == {"p0", "p1"}

Sizes == {<<1, 1>>, <<2, 2>>}

Offsets == {<<0, 0>>, <<1, 1>>}

NULL == [null |-> TRUE]

ZeroData == [p \in Pixels |-> 0]

\* new ImageBlock(fmt, size, filter): offset 0, the given size, empty bitmap
NewImageBlock(fmt, size) ==
    [fmt |-> fmt, offset |-> <<0, 0>>, size |-> size, data |-> ZeroData]

BlockSetOffset(b, offset) == [b EXCEPT !.offset = offset]

BlockSetSize(b, size) == [b EXCEPT !.size = size]

\* ImageBlock::put(sample, value): splat through a one-pixel box filter
BlockPutSample(b, p, v) == [b EXCEPT !.data[p] = @ + v]

\* ImageBlock::put(const ImageBlock *): elementwise addition
BlockPut(b, other) ==
    [b EXCEPT !.data = [p \in Pixels |-> b.data[p] + other.data[p]]]

BlockClear(b) == [b EXCEPT !.data = ZeroData]

\* ImageBlock::save: the raw pixel payload, no header
BlockSave(b) == b.data

\* ImageBlock::load: the raw pixel payload, no header
BlockLoad(b, payload) == [b EXCEPT !.data = payload]

\* ----------------------------------------------------------- pure parts
\* C++ integer division truncates toward zero
TruncDiv(a, b) == IF a >= 0 THEN a \div b ELSE -((-a) \div b)

strategyIndex_OffByOne(s, t) ==
    LET above == s + t - 1
    IN  s + TruncDiv(above * (5 + above), 2)

strategyIndex(s, t) ==
    LET above == s + t - 2
    IN  s + TruncDiv(above * (5 + above), 2)

DebugSize_Triangular(maxDepth) == TruncDiv(maxDepth * (3 + maxDepth), 2)

\* the length the constructor gives m_debugBlocks and m_debugBlocksM
DebugSize(maxDepth) == TruncDiv(maxDepth * (5 + maxDepth), 2)

NoBlockSize == <<-1, -1>>

Conf(lightImage, maxDepth) ==
    [blockSize |-> 1, cropSize |-> <<2, 2>>,
     lightImage |-> lightImage, maxDepth |-> maxDepth]

\* ------------------------------------------------------------ constructor
CtorBlock(c, blockSize) ==
    LET size == IF blockSize = NoBlockSize
                THEN <<c.blockSize, c.blockSize>> ELSE blockSize
    IN  BlockSetSize(BlockSetOffset(
            NewImageBlock("ESpectrumAlphaWeight", size), <<0, 0>>), size)

CtorFullFrame(c) ==
    BlockSetOffset(BlockSetSize(
        NewImageBlock("ESpectrum", c.cropSize), c.cropSize), <<0, 0>>)

CtorLightImage(c) == IF c.lightImage THEN CtorFullFrame(c) ELSE NULL

CtorDebugBlocks(c, debug) ==
    IF debug
    THEN [i \in 0 .. DebugSize(c.maxDepth) - 1 |-> CtorFullFrame(c)]
    ELSE [i \in {} |-> NULL]

W == DOMAIN m_block

Alive == fault = "none"

NoSaved == [w |-> "none", block |-> NULL, light |-> NULL,
            debug |-> [i \in {} |-> NULL], debugM |-> [i \in {} |-> NULL]]

Other == [op |-> "other"]

\* the state after constructing the work results named in ws
InitWR(ws, lights, depths, blockSizes) ==
    /\ GBDPT_DEBUG \in BOOLEAN
    /\ \E d \in depths :
          conf \in {[w \in ws |-> Conf(l[w], d)] : l \in [ws -> lights]}
    /\ \E bs \in blockSizes :
          m_block = [w \in ws |-> CtorBlock(conf[w], bs)]
    /\ m_lightImage = [w \in ws |-> CtorLightImage(conf[w])]
    /\ m_debugBlocks = [w \in ws |-> CtorDebugBlocks(conf[w], GBDPT_DEBUG)]
    /\ m_debugBlocksM = [w \in ws |-> CtorDebugBlocks(conf[w], GBDPT_DEBUG)]
    /\ stream = <<>>
    /\ fault = "none"
    /\ lastOp = Other
    /\ saved = NoSaved
    /\ steps = 0
    /\ orig = [w \in ws |-> [w |-> w, block |-> m_block[w],
                              light |-> m_lightImage[w],
                              debug |-> m_debugBlocks[w],
                              debugM |-> m_debugBlocksM[w]]]
    /\ holds = [w \in ws |-> IF w = "acc" THEN {} ELSE {w}]
    /\ ops = 0
    /\ args = <<0, 0>>
    /\ index = 0
    /\ dumpLog = <<>>

\* -------------------------------------------------------------- operations
\* putSample: m_block->put(sample, spec, 1.0f)
PutSample(w, p, v) ==
    /\ Alive
    /\ m_block' = [m_block EXCEPT ![w] = BlockPutSample(@, p, v)]
    /\ lastOp' = Other
    /\ UNCHANGED <<GBDPT_DEBUG, conf, m_lightImage, m_debugBlocks,
                   m_debugBlocksM, stream, fault, saved, idxVars>>

\* putLightSample: m_lightImage->put(sample, spec, 1.0f), no presence check
PutLightSample(w, p, v) ==
    /\ Alive
    /\ IF m_lightImage[w] = NULL
       THEN /\ fault' = "null:putLightSample"
            /\ UNCHANGED m_lightImage
       ELSE /\ m_lightImage' =
                  [m_lightImage EXCEPT ![w] = BlockPutSample(@, p, v)]
            /\ UNCHANGED fault
    /\ lastOp' = Other
    /\ UNCHANGED <<GBDPT_DEBUG, conf, m_block, m_debugBlocks,
                   m_debugBlocksM, stream, saved, idxVars>>

\* putDebugSample: m_debugBlocks[strategyIndex(s, t)]->put(sample, spec)
PutDebugSample(w, s, t, p, v) ==
    /\ Alive
    /\ GBDPT_DEBUG
    /\ LET i == strategyIndex(s, t)
       IN  IF i \in DOMAIN m_debugBlocks[w]
           THEN /\ m_debugBlocks' =
                      [m_debugBlocks EXCEPT ![w][i] = BlockPutSample(@, p, v)]
                /\ UNCHANGED fault
           ELSE /\ fault' = "range:putDebugSample"
                /\ UNCHANGED m_debugBlocks
    /\ lastOp' = Other
    /\ UNCHANGED <<GBDPT_DEBUG, conf, m_block, m_lightImage,
                   m_debugBlocksM, stream, saved, idxVars>>

\* putDebugSampleM: returns before touching m_debugBlocksM
PutDebugSampleM(w, s, t, p, v) ==
    /\ Alive
    /\ GBDPT_DEBUG
    /\ lastOp' = Other
    /\ UNCHANGED <<GBDPT_DEBUG, conf, wrVars, stream, fault, saved, idxVars>>

PutAll(blocks, others) ==
    [i \in DOMAIN blocks |-> BlockPut(blocks[i], others[i])]

\* the light image put() leaves: tested on this side only
PutLight_Overwrite(mine, theirs) ==
    IF mine # NULL /\ theirs # NULL THEN theirs ELSE mine

PutLight(mine, theirs) ==
    IF mine # NULL /\ theirs # NULL THEN BlockPut(mine, theirs) ELSE mine

\* put(workResult): debug blocks, then m_block, then the light image
Put(w, o) ==
    /\ Alive
    /\ m_debugBlocks' =
          [m_debugBlocks EXCEPT ![w] = PutAll(@, m_debugBlocks[o])]
    /\ m_debugBlocksM' =
          [m_debugBlocksM EXCEPT ![w] = PutAll(@, m_debugBlocksM[o])]
    /\ m_block' = [m_block EXCEPT ![w] = BlockPut(@, m_block[o])]
    /\ m_lightImage' =
          [m_lightImage EXCEPT ![w] = PutLight(@, m_lightImage[o])]
    /\ fault' = IF m_lightImage[w] # NULL /\ m_lightImage[o] = NULL
                THEN "null:put" ELSE fault
    /\ lastOp' = Other
    /\ UNCHANGED <<GBDPT_DEBUG, conf, stream, saved, idxVars>>

\* some buffer w owns holds a contribution
Dirty(w) ==
    \/ m_block[w].data # ZeroData
    \/ m_lightImage[w] # NULL /\ m_lightImage[w].data # ZeroData
    \/ \E i \in DOMAIN m_debugBlocks[w] : m_debugBlocks[w][i].data # ZeroData
    \/ \E i \in DOMAIN m_debugBlocksM[w] : m_debugBlocksM[w][i].data # ZeroData

ClearAll(blocks) == [i \in DOMAIN blocks |-> BlockClear(blocks[i])]

Clear_KeepLight(w) ==
    /\ Alive
    /\ m_debugBlocks' = [m_debugBlocks EXCEPT ![w] = ClearAll(@)]
    /\ m_debugBlocksM' = [m_debugBlocksM EXCEPT ![w] = ClearAll(@)]
    /\ m_block' = [m_block EXCEPT ![w] = BlockClear(@)]
    /\ lastOp' = [op |-> "clear", w |-> w, dirty |-> Dirty(w)]
    /\ UNCHANGED <<GBDPT_DEBUG, conf, m_lightImage, stream, fault, saved,
                   idxVars>>

\* clear(): debug blocks, the light image if present, m_block
Clear(w) ==
    /\ Alive
    /\ m_debugBlocks' = [m_debugBlocks EXCEPT ![w] = ClearAll(@)]
    /\ m_debugBlocksM' = [m_debugBlocksM EXCEPT ![w] = ClearAll(@)]
    /\ m_lightImage' =
          [m_lightImage EXCEPT ![w] = IF @ # NULL THEN BlockClear(@) ELSE @]
    /\ m_block' = [m_block EXCEPT ![w] = BlockClear(@)]
    /\ lastOp' = [op |-> "clear", w |-> w, dirty |-> Dirty(w)]
    /\ UNCHANGED <<GBDPT_DEBUG, conf, stream, fault, saved, idxVars>>

\* setSize: m_block->setSize(size)
SetSize(w, size) ==
    /\ Alive
    /\ m_block' = [m_block EXCEPT ![w] = BlockSetSize(@, size)]
    /\ lastOp' = Other
    /\ UNCHANGED <<GBDPT_DEBUG, conf, m_lightImage, m_debugBlocks,
                   m_debugBlocksM, stream, fault, saved, idxVars>>

SetOffset_Both(w, offset) ==
    /\ Alive
    /\ m_block' = [m_block EXCEPT ![w] = BlockSetOffset(@, offset)]
    /\ m_lightImage' = [m_lightImage EXCEPT ![w] =
          IF @ # NULL THEN BlockSetOffset(@, offset) ELSE @]
    /\ lastOp' = Other
    /\ UNCHANGED <<GBDPT_DEBUG, conf, m_debugBlocks,
                   m_debugBlocksM, stream, fault, saved, idxVars>>

\* setOffset: m_block->setOffset(offset)
SetOffset(w, offset) ==
    /\ Alive
    /\ m_block' = [m_block EXCEPT ![w] = BlockSetOffset(@, offset)]
    /\ lastOp' = Other
    /\ UNCHANGED <<GBDPT_DEBUG, conf, m_lightImage, m_debugBlocks,
                   m_debugBlocksM, stream, fault, saved, idxVars>>

\* ----------------------------------------------------------- serialization
DebugFields(w) ==
    IF GBDPT_DEBUG
    THEN [k \in 1 .. Cardinality(DOMAIN m_debugBlocks[w]) |-> <<"debug", k - 1>>]
    ELSE <<>>

SaveFields_LightLast(w) ==
    DebugFields(w)
    \o << <<"block", 0>> >>
    \o (IF m_lightImage[w] # NULL THEN << <<"light", 0>> >> ELSE <<>>)

\* the fields save() writes, in the order it writes them
SaveFields(w) ==
    DebugFields(w)
    \o (IF m_lightImage[w] # NULL THEN << <<"light", 0>> >> ELSE <<>>)
    \o << <<"block", 0>> >>

LoadFields_BlockFirst(w) ==
    DebugFields(w)
    \o << <<"block", 0>> >>
    \o (IF m_lightImage[w] # NULL THEN << <<"light", 0>> >> ELSE <<>>)

\* the fields load() reads, in the order it reads them
LoadFields(w) ==
    DebugFields(w)
    \o (IF m_lightImage[w] # NULL THEN << <<"light", 0>> >> ELSE <<>>)
    \o << <<"block", 0>> >>

FieldBlock(w, f) ==
    CASE f[1] = "debug" -> m_debugBlocks[w][f[2]]
      [] f[1] = "light" -> m_lightImage[w]
      [] OTHER          -> m_block[w]

Snapshot(w) ==
    [w |-> w, block |-> m_block[w], light |-> m_lightImage[w],
     debug |-> m_debugBlocks[w], debugM |-> m_debugBlocksM[w]]

\* save(stream): each field's ImageBlock::save, appended to the stream
Save(w) ==
    /\ Alive
    /\ LET fs == SaveFields(w)
       IN  stream' = stream \o
              [k \in 1 .. Len(fs) |->
                  [field |-> fs[k], data |-> BlockSave(FieldBlock(w, fs[k]))]]
    /\ saved' = Snapshot(w)
    /\ lastOp' = [op |-> "save", w |-> w]
    /\ UNCHANGED <<GBDPT_DEBUG, conf, wrVars, fault, idxVars>>

\* position of field f in fs, 0 when it is not read
PosOf(fs, f) ==
    IF \E k \in 1 .. Len(fs) : fs[k] = f
    THEN CHOOSE k \in 1 .. Len(fs) : fs[k] = f
    ELSE 0

\* the block a field holds after load() got through the first n payloads
Loaded(b, fs, f, n) ==
    LET k == PosOf(fs, f)
    IN  IF k >= 1 /\ k <= n THEN BlockLoad(b, stream[k].data) ELSE b

\* load(stream): each field's ImageBlock::load in turn, in place; a read past
\* the end of the stream fails and ends the call there
Load(w) ==
    /\ Alive
    /\ LET fs == LoadFields(w)
           n  == IF Len(stream) < Len(fs) THEN Len(stream) ELSE Len(fs)
       IN  /\ m_debugBlocks' = [m_debugBlocks EXCEPT ![w] =
                 [i \in DOMAIN @ |-> Loaded(@[i], fs, <<"debug", i>>, n)]]
           /\ m_lightImage' = [m_lightImage EXCEPT ![w] =
                 IF @ # NULL THEN Loaded(@, fs, <<"light", 0>>, n) ELSE @]
           /\ m_block' = [m_block EXCEPT ![w] =
                 Loaded(@, fs, <<"block", 0>>, n)]
           /\ stream' = SubSeq(stream, n + 1, Len(stream))
           /\ lastOp' = [op |-> "load", w |-> w, ok |-> n = Len(fs),
                         fields |-> [k \in 1 .. n |-> <<fs[k], stream[k].field>>]]
    /\ UNCHANGED <<GBDPT_DEBUG, conf, m_debugBlocksM, fault, saved, idxVars>>

\* the stream loses its tail (truncated stream, I/O fault)
Truncate(n) ==
    /\ Alive
    /\ n < Len(stream)
    /\ stream' = SubSeq(stream, 1, n)
    /\ lastOp' = Other
    /\ UNCHANGED <<GBDPT_DEBUG, conf, wrVars, fault, saved, idxVars>>

\* -------------------------------------------------------------------- dump
RECURSIVE DumpInner(_, _, _)
\* the inner loop: for (t = from; t <= k + 1; ++t) { s = k + 1 - t; ... }
DumpInner(array, k, from) ==
    IF from > k + 1
    THEN <<>>
    ELSE LET s == k + 1 - from
         IN  << [array |-> array, k |-> k, s |-> s, t |-> from,
                 i |-> strategyIndex(s, from)] >>
             \o DumpInner(array, k, from + 1)

RECURSIVE DumpOuter(_, _)
\* the outer loop: for (k = from; k <= maxDepth; ++k)
DumpOuter(maxDepth, from) ==
    IF from > maxDepth
    THEN <<>>
    ELSE DumpInner("m_debugBlocks", from, 0)
         \o DumpInner("m_debugBlocksM", from, 0)
         \o DumpOuter(maxDepth, from + 1)

\* dump(conf, prefix, stem): the array elements it reads
Dump(w) ==
    /\ Alive
    /\ GBDPT_DEBUG
    /\ dumpLog' = DumpOuter(conf[w].maxDepth, 1)
    /\ fault' = IF \E e \in 1 .. Len(dumpLog') :
                      dumpLog'[e].i \notin DOMAIN m_debugBlocks[w]
                THEN "range:dump" ELSE fault
    /\ lastOp' = Other
    /\ UNCHANGED <<GBDPT_DEBUG, conf, wrVars, stream, saved,
                   args, index>>

\* a call of strategyIndex(s, t)
StrategyIndexCall(s, t) ==
    /\ Alive
    /\ args' = <<s, t>>
    /\ index' = strategyIndex(s, t)
    /\ lastOp' = Other
    /\ UNCHANGED <<GBDPT_DEBUG, conf, wrVars, stream, fault, saved,
                   dumpLog>>

\* ---------------------------------------------------------- specifications
\* a sample carries one unit; larger pixel values come from accumulation
Vals == {1}

\* the (s, t) a caller hands to putDebugSample for paths of length 1 .. maxDepth
Strategies(maxDepth) ==
    {st \in (0 .. maxDepth + 1) \X (0 .. maxDepth + 1) :
        st[1] + st[2] - 1 \in 1 .. maxDepth}

\* strategyIndex and dump, for every configured depth
InitIdx == InitWR({"x"}, BOOLEAN, 0 .. MaxDepthIdx, {NoBlockSize, <<2, 2>>})

IdxFrame == UNCHANGED <<steps, orig, holds, ops>>

NextIdx ==
    \/ IdxFrame /\ \E s, t \in 0 .. MaxDepthIdx + 2 : StrategyIndexCall(s, t)
    \/ IdxFrame /\ Dump("x")

SpecIdx == InitIdx /\ [][NextIdx]_vars

\* two work results and the stream between them
InitWRs == InitWR({"x", "y"}, BOOLEAN, {1}, {NoBlockSize})

\* one more operation of the behaviour
Step ==
    /\ steps < MaxSteps
    /\ steps' = steps + 1
    /\ UNCHANGED <<orig, holds, ops>>

NextWR ==
    \/ Step /\ \E w \in W, p \in Pixels, v \in Vals : PutSample(w, p, v)
    \/ Step /\ \E w \in W, p \in Pixels, v \in Vals : PutLightSample(w, p, v)
    \/ Step /\ \E w \in W, p \in Pixels, v \in Vals :
                  \E st \in Strategies(conf[w].maxDepth) :
                     PutDebugSample(w, st[1], st[2], p, v)
    \/ Step /\ \E w \in W, p \in Pixels, v \in Vals :
                  PutDebugSampleM(w, 1, 1, p, v)
    \/ Step /\ \E w, o \in W : w # o /\ Put(w, o)
    \/ Step /\ \E w \in W : Clear(w)
    \/ Step /\ \E w \in W, size \in Sizes : SetSize(w, size)
    \/ Step /\ \E w \in W, offset \in Offsets : SetOffset(w, offset)
    \/ Step /\ \E w \in W : stream = <<>> /\ Save(w)
    \/ Step /\ \E w \in W : Load(w)
    \/ \E n \in 0 .. Len(stream) :
          Truncate(n) /\ UNCHANGED <<steps, orig, holds, ops>>

SpecWR == InitWRs /\ [][NextWR]_vars

\* three workers' results and the accumulator of the reduction stage, all
\* built from one configuration
Workers == {"a", "b", "c"}

InitMerge ==
    /\ \/ InitWR(Workers \cup {"acc"}, {TRUE}, {1}, {NoBlockSize})
       \/ InitWR(Workers \cup {"acc"}, {FALSE}, {1}, {NoBlockSize})

Filling == \A w \in W : holds[w] \subseteq {w}

\* one more sample, while no result has been handed in
Fill ==
    /\ Filling
    /\ ops < MaxOps
    /\ ops' = ops + 1
    /\ orig' = [w \in W |-> Snapshot(w)']
    /\ UNCHANGED <<steps, holds>>

\* a result nobody has taken yet
Root(w) == \A u \in W \ {w} : w \notin holds[u]

\* the reduction stage folds o into w; a result is handed in once
Fold(w, o) ==
    /\ w # o
    /\ Root(w)
    /\ Root(o)
    /\ holds' = [holds EXCEPT ![w] = @ \cup holds[o]]
    /\ UNCHANGED <<steps, orig, ops>>

NextMerge ==
    \/ \E w \in Workers, p \in Pixels, v \in Vals : PutSample(w, p, v) /\ Fill
    \/ \E w \in Workers, p \in Pixels, v \in Vals :
          PutLightSample(w, p, v) /\ Fill
    \/ \E w \in Workers, p \in Pixels, v \in Vals :
          \E st \in Strategies(conf[w].maxDepth) :
             PutDebugSample(w, st[1], st[2], p, v) /\ Fill
    \/ \E w \in W, o \in Workers : Fold(w, o) /\ Put(w, o)

SpecMerge == InitMerge /\ [][NextMerge]_vars

\* ------------------------------------------------------------------ claims
MaxDepthOf(w) == conf[w].maxDepth

\* the (s, t) with lo <= s + t - 2 <= hi
PairsBetween(lo, hi) ==
    {st \in (0 .. hi + 2) \X (0 .. hi + 2) : st[1] + st[2] - 2 \in lo .. hi}

IndexOf(st) == strategyIndex(st[1], st[2])

Injective(P) == \A p, q \in P : IndexOf(p) = IndexOf(q) => p = q

\* C1 as stated: over the (s, t) with s + t - 2 in [0, maxDepth], strategyIndex
\* is injective and its image is exactly [0, D), D the length of the debug
\* array; so a call with such (s, t) returns an index below D.
C1_Original ==
    LET P == PairsBetween(0, MaxDepthOf("x"))
        D == DebugSize(MaxDepthOf("x"))
    IN  args \in P =>
           /\ index \in 0 .. D - 1
           /\ Injective(P)
           /\ {IndexOf(p) : p \in P} = 0 .. D - 1

\* C1 amended: over the (s, t) with s + t - 2 in [0, maxDepth - 1], strategyIndex
\* is injective and its image is exactly [0, D); D is the length the constructor
\* gives m_debugBlocks, and a call with such (s, t) returns an index below D.
C1_IndexBijection ==
    LET P == PairsBetween(0, MaxDepthOf("x") - 1)
        D == DebugSize(MaxDepthOf("x"))
    IN  /\ Injective(P)
        /\ {IndexOf(p) : p \in P} = 0 .. D - 1
        /\ GBDPT_DEBUG => DOMAIN m_debugBlocks["x"] = 0 .. D - 1
        /\ args \in P => index \in 0 .. D - 1

\* strategyIndex was called with the last strategy of the longest path and
\* returned the last slot of the array
C1_Witness ==
    /\ MaxDepthOf("x") >= 2
    /\ args = <<MaxDepthOf("x") + 1, 0>>
    /\ index = DebugSize(MaxDepthOf("x")) - 1

DumpEntries(array) ==
    {dumpLog[e] : e \in {n \in 1 .. Len(dumpLog) : dumpLog[n].array = array}}

Smallest(S) == CHOOSE m \in S : \A n \in S : m <= n

\* C10: every element dump() reads lies inside the debug array; dump visits
\* k = 1 .. maxDepth, t = 0 .. k + 1 with s = k + 1 - t; distinct (k, t) read
\* distinct slots, each k reads a contiguous block of k + 2 slots, and the
\* slots read are exactly [0, D).
C10_DumpInRange ==
    dumpLog # <<>> =>
        LET D == DebugSize(MaxDepthOf("x"))
        IN  \A array \in {"m_debugBlocks", "m_debugBlocksM"} :
               LET E == DumpEntries(array)
               IN  /\ fault = "none"
                   /\ \A e \in E : e.i \in 0 .. D - 1 /\ e.s = e.k + 1 - e.t
                   /\ \A e \in E : e.i \in DOMAIN m_debugBlocks["x"]
                   /\ {<<e.k, e.t>> : e \in E} =
                         {kt \in (1 .. MaxDepthOf("x")) \X (0 .. MaxDepthOf("x") + 1) :
                             kt[2] <= kt[1] + 1}
                   /\ \A e1, e2 \in E :
                         <<e1.k, e1.t>> # <<e2.k, e2.t>> => e1.i # e2.i
                   /\ \A k \in 1 .. MaxDepthOf("x") :
                         LET B == {e.i : e \in {d \in E : d.k = k}}
                         IN  B = Smallest(B) .. Smallest(B) + k + 1
                   /\ {e.i : e \in E} = 0 .. D - 1

\* dump() ran on a work result with at least three path lengths
C10_Witness ==
    /\ MaxDepthOf("x") >= 3
    /\ Len(dumpLog) = 2 * DebugSize(MaxDepthOf("x"))

\* the pixel data of every buffer in a snapshot
Content(snap) ==
    [block  |-> snap.block.data,
     light  |-> IF snap.light = NULL THEN NULL ELSE snap.light.data,
     debug  |-> [i \in DOMAIN snap.debug |-> snap.debug[i].data],
     debugM |-> [i \in DOMAIN snap.debugM |-> snap.debugM[i].data]]

\* the last operation was a load that read every field, by a work result of
\* the writer's configuration
LoadedFromPeer ==
    /\ lastOp.op = "load"
    /\ lastOp.ok
    /\ saved.w # "none"
    /\ conf[saved.w] = conf[lastOp.w]

\* C2: after x.save(stream) and y.load(stream), x and y of one configuration,
\* every buffer of y holds the content the buffer of x held at the save.
C2_RoundTrip ==
    LoadedFromPeer => Content(Snapshot(lastOp.w)) = Content(saved)

\* y loaded from x a light image that holds a sample and a camera block that
\* holds none
C2_Witness ==
    /\ LoadedFromPeer
    /\ lastOp.w # saved.w
    /\ saved.light # NULL
    /\ saved.light.data # ZeroData
    /\ saved.light.data # saved.block.data
    /\ m_lightImage[lastOp.w].data = saved.light.data

\* the order the serialization protocol fixes for a configuration
ExpectedFields(w) ==
    [k \in 1 .. (IF GBDPT_DEBUG THEN DebugSize(MaxDepthOf(w)) ELSE 0) |->
        <<"debug", k - 1>>]
    \o (IF conf[w].lightImage THEN << <<"light", 0>> >> ELSE <<>>)
    \o << <<"block", 0>> >>

\* C3: save writes the debug blocks in index order, then the light image iff
\* present, then the camera block; a load by a work result of the writer's
\* configuration reads exactly these fields, each from the payload save wrote
\* for it, and leaves nothing in the stream.
C3_FieldOrder ==
    /\ lastOp.op = "save" =>
          [k \in 1 .. Len(stream) |-> stream[k].field] = ExpectedFields(lastOp.w)
    /\ LoadedFromPeer =>
          /\ lastOp.fields =
                [k \in 1 .. Len(ExpectedFields(lastOp.w)) |->
                    <<ExpectedFields(lastOp.w)[k], ExpectedFields(lastOp.w)[k]>>]
          /\ stream = <<>>

\* a debug build: y read the three debug blocks, the light image and the block
C3_Witness ==
    /\ LoadedFromPeer
    /\ lastOp.w # saved.w
    /\ GBDPT_DEBUG
    /\ conf[lastOp.w].lightImage
    /\ Len(lastOp.fields) = 5

RECURSIVE SumData(_, _)
\* the elementwise sum of g[o] over o in S
SumData(S, g) ==
    IF S = {}
    THEN ZeroData
    ELSE LET o == CHOOSE u \in S : TRUE
         IN  [p \in Pixels |-> g[o][p] + SumData(S \ {o}, g)[p]]

\* C4: whatever the order and the grouping of the put calls, every buffer of a
\* result is the elementwise sum of the originals folded into it.
C4_MergeOrderFree ==
    \A w \in W :
        /\ m_block[w].data =
              SumData(holds[w], [o \in W |-> orig[o].block.data])
        /\ m_lightImage[w] # NULL =>
              m_lightImage[w].data =
                 SumData(holds[w], [o \in W |-> orig[o].light.data])
        /\ \A i \in DOMAIN m_debugBlocks[w] :
              m_debugBlocks[w][i].data =
                 SumData(holds[w], [o \in W |-> orig[o].debug[i].data])
        /\ \A i \in DOMAIN m_debugBlocksM[w] :
              m_debugBlocksM[w][i].data =
                 SumData(holds[w], [o \in W |-> orig[o].debugM[i].data])

\* c was folded into b first, then a and b into the accumulator; a and c had
\* splatted the same pixel of the light image
C4_Witness ==
    /\ holds["acc"] = Workers
    /\ holds["b"] = {"b", "c"}
    /\ m_lightImage["acc"] # NULL
    /\ orig["a"].light.data["p0"] = 1
    /\ orig["c"].light.data["p0"] = 1
    /\ m_lightImage["acc"].data["p0"] = 2

\* C5: put never hands an absent light image of the other side to the merge.
C5_PutChecksBothSides == fault # "null:put"

\* C6: no operation on a work result dereferences its absent light image.
C6_NoNullDeref == fault # "null:putLightSample"

\* C7: a load that fails on a stream written by a work result of the reader's
\* configuration leaves every buffer of the reader as it was.
C7_FailedLoadAtomic ==
    [][(/\ lastOp'.op = "load"
        /\ ~lastOp'.ok
        /\ saved.w # "none"
        /\ conf[saved.w] = conf[lastOp'.w])
       => /\ m_block'[lastOp'.w] = m_block[lastOp'.w]
          /\ m_lightImage'[lastOp'.w] = m_lightImage[lastOp'.w]
          /\ m_debugBlocks'[lastOp'.w] = m_debugBlocks[lastOp'.w]]_vars

\* what clear(w) must leave of w: every pixel zero, the shapes as they were
ClearedFrom(before, after) ==
    /\ after.block = [before.block EXCEPT !.data = ZeroData]
    /\ (after.light = NULL) = (before.light = NULL)
    /\ after.light # NULL =>
          after.light = [before.light EXCEPT !.data = ZeroData]
    /\ DOMAIN after.debug = DOMAIN before.debug
    /\ DOMAIN after.debugM = DOMAIN before.debugM
    /\ \A i \in DOMAIN after.debug :
          after.debug[i] = [before.debug[i] EXCEPT !.data = ZeroData]
    /\ \A i \in DOMAIN after.debugM :
          after.debugM[i] = [before.debugM[i] EXCEPT !.data = ZeroData]

\* the buffers of w after the step
SnapshotAfter(w) ==
    [w |-> w, block |-> m_block'[w], light |-> m_lightImage'[w],
     debug |-> m_debugBlocks'[w], debugM |-> m_debugBlocksM'[w]]

\* C8: clear(w) zeroes every buffer w owns and changes nothing else; the
\* putSample or put that follows a clear leaves only its own contribution.
C8_ClearResets ==
    [][/\ lastOp'.op = "clear" =>
             /\ ClearedFrom(Snapshot(lastOp'.w), SnapshotAfter(lastOp'.w))
             /\ \A o \in W \ {lastOp'.w} : SnapshotAfter(o) = Snapshot(o)
             /\ UNCHANGED <<GBDPT_DEBUG, conf, stream, fault, saved>>
       /\ lastOp.op = "clear" =>
             /\ \A p \in Pixels, v \in Vals :
                   PutSample(lastOp.w, p, v) =>
                      m_block'[lastOp.w].data =
                         [q \in Pixels |-> IF q = p THEN v ELSE 0]
             /\ \A o \in W \ {lastOp.w} :
                   Put(lastOp.w, o) =>
                      /\ m_block'[lastOp.w].data = m_block[o].data
                      /\ \A i \in DOMAIN m_debugBlocks[lastOp.w] :
                            m_debugBlocks'[lastOp.w][i].data =
                               m_debugBlocks[o][i].data
                      /\ m_lightImage[lastOp.w] # NULL =>
                            m_lightImage'[lastOp.w].data =
                               IF m_lightImage[o] # NULL
                               THEN m_lightImage[o].data ELSE ZeroData]_vars

\* a work result that held samples has just been cleared
C8_Witness ==
    /\ lastOp.op = "clear"
    /\ lastOp.dirty
    /\ m_lightImage[lastOp.w] # NULL

\* C9: the light image exists iff the configuration asked for it, and it stays
\* at offset (0, 0) with the crop size whatever is done to the camera block.
C9_LightImageFixed ==
    \A w \in W :
        /\ (m_lightImage[w] # NULL) = conf[w].lightImage
        /\ m_lightImage[w] # NULL =>
              /\ m_lightImage[w].offset = <<0, 0>>
              /\ m_lightImage[w].size = conf[w].cropSize

\* the camera block was moved and resized and the light image was splatted
C9_Witness ==
    \E w \in W :
        /\ m_block[w].offset = <<1, 1>>
        /\ m_block[w].size = <<2, 2>>
        /\ m_lightImage[w] # NULL
        /\ m_lightImage[w].data # ZeroData

====
